---- MODULE Spec2Model ----
(***************************************************************************)
(* Model of the sentiment service: sentiment_service/analyzer.py           *)
(* (fetch_tweets, get_community_metrics, get_volume_growth, load_model,    *)
(* analyze_symbol) and sentiment_service/main.py (analyze_sentiment).      *)
(*                                                                         *)
(* The collaborators (search, account lookup, count series, classifier)    *)
(* are external: every call draws its answer from a small set.  Numbers    *)
(* that are floats in the program are kept exact as fractions             *)
(* [num |-> n, den |-> d]; rounding of IEEE doubles is not modelled.       *)
(*                                                                         *)
(* Specifications: SpecFetch, SpecCommunity, SpecVolume (one function on   *)
(* its own), SpecAggregate (analyze_symbol from a fetched batch on), Spec  *)
(* (one request), SpecLoad (threads inside load_model), SpecTwice and      *)
(* SpecConcurrent (two invocations against collaborators that are          *)
(* functions of the request).                                              *)
(***************************************************************************)
EXTENDS Integers, Sequences, FiniteSets, TLC

VARIABLES
    pc,                 \* position of the invocation in analyze_symbol and its callees
    symbol,             \* argument of analyze_symbol; the search term is built from it
    community_accounts, \* argument of analyze_symbol / get_community_metrics
    all_tweets,         \* fetch_tweets: the accumulated rows
    next_token,         \* fetch_tweets: continuation token (None or a page index)
    df,                 \* the frame fetch_tweets returns
    search_calls,       \* search collaborator: number of search_recent_tweets calls
    search_raised,      \* search collaborator: a call has raised
    served,             \* search collaborator: the posts of the pages it returned
    polarity,           \* analyze_symbol: the 'Polarity' column, filled row by row
    classify_calls,     \* classifier: number of inference calls
    classifier_raised,  \* classifier: a call has raised
    _tokenizer,         \* module global: None or the tokenizer object
    _model,             \* module global: None or the model object
    evaluated,          \* the model objects on which eval() has been called
    model_loads,        \* number of model constructions (from_pretrained of the model)
    threads,            \* worker threads: inside load_model their position and
                        \* locals; of two invocations, which one runs and the
                        \* locals of the one waiting
    user_data,          \* get_community_metrics: the rows of the accounts found
    lookup_i,           \* get_community_metrics: position of the loop in the list
    lookup_log,         \* account collaborator: the usernames asked, in call order
    community_metrics,  \* analyze_symbol: what get_community_metrics returned
    count_calls,        \* count-series collaborator: number of calls
    count_raised,       \* count-series collaborator: a call has raised
    counts_response,    \* get_volume_growth: None, or the data the call returned
    volume_growth,      \* analyze_symbol: what get_volume_growth returned
    aggregate,          \* analyze_symbol: weighted polarity and engagement means
    result,             \* what analyze_symbol returned
    http_status         \* analyze_sentiment: None, or the status of the response

fetchVars == <<all_tweets, next_token, search_calls, search_raised, served>>
scoreVars == <<polarity, classify_calls, classifier_raised>>
modelVars == <<_tokenizer, _model, evaluated, model_loads, threads>>
communityVars == <<user_data, lookup_i, lookup_log, community_metrics>>
volumeVars == <<count_calls, count_raised, counts_response, volume_growth>>
resultVars == <<aggregate, result, http_status>>

\* everything but the globals of load_model and the threads inside it
pipelineVars == <<pc, symbol, community_accounts, df, fetchVars, scoreVars,
                  communityVars, volumeVars, resultVars>>

vars == <<pc, symbol, community_accounts, df, fetchVars, scoreVars, modelVars,
          communityVars, volumeVars, resultVars>>

\* Optional values: None, or Some(v)
None == <<>>
Some(v) == <<v>>

(***************************************************************************)
(* Floats, kept exact: a fraction in lowest terms with a positive          *)
(* denominator, or one of the two non-finite values the program can meet.  *)
(***************************************************************************)
Abs(n) == IF n < 0 THEN -n ELSE n

RECURSIVE GCD(_, _)
GCD(a, b) == IF b = 0 THEN a ELSE GCD(b, a % b)

\* n / d for d # 0
Frac(n, d) ==
    LET g == GCD(Abs(n), Abs(d))
        sign == IF d < 0 THEN -1 ELSE 1
    IN  [kind |-> "num", num |-> sign * (n \div g), den |-> sign * (d \div g)]

Zero == Frac(0, 1)
Inf == [kind |-> "inf", num |-> 1, den |-> 0]
NaN == [kind |-> "nan", num |-> 0, den |-> 0]

FracAdd(x, y) == Frac(x.num * y.den + y.num * x.den, x.den * y.den)
FracMul(x, y) == Frac(x.num * y.num, x.den * y.den)
FracDiv(x, y) == Frac(x.num * y.den, x.den * y.num)
FracLeq(x, y) == x.num * y.den <= y.num * x.den

RECURSIVE FracSum(_)
FracSum(xs) == IF xs = <<>> THEN Zero ELSE FracAdd(Head(xs), FracSum(Tail(xs)))

RECURSIVE IntSum(_)
IntSum(ns) == IF ns = <<>> THEN 0 ELSE Head(ns) + IntSum(Tail(ns))

\* Series.mean() of a non-empty integer column
Mean(ns) == Frac(IntSum(ns), Len(ns))

Column(rows, field) == [i \in 1..Len(rows) |-> rows[i][field]]

\* a frame without the first of its rows equal to `row`
RemoveFirst(rows, row) ==
    LET at == CHOOSE i \in 1..Len(rows) :
                    rows[i] = row /\ \A j \in 1..(i - 1) : rows[j] # row
    IN  SubSeq(rows, 1, at - 1) \o SubSeq(rows, at + 1, Len(rows))

(***************************************************************************)
(* Bounds of the model.                                                    *)
(***************************************************************************)
\* the cap analyze_symbol passes to fetch_tweets (500 in the program), scaled
max_tweets == 3
\* the page size asked of the search collaborator (100 in the program), scaled
max_results == 2
\* the longest chain of pages the search collaborator serves
MaxPages == 3
\* search calls after which the model stops following the retrieval loop
MaxCalls == 4
\* the longest account list given to get_community_metrics on its own
MaxAccounts == 3
\* the longest account list given to analyze_symbol
MaxRequestAccounts == 1
\* the longest page behind the batch whose aggregate is taken on its own
MaxBatch == 2
\* the longest count series given to get_volume_growth on its own
MaxDays == 9
\* worker threads scoring at the same time, and load_model calls of each
NumThreads == 2
MaxLoadCalls == 2

\* fetch_tweets keeps a post only when its author has more than this many followers
FollowerGate == 100
\* get_community_metrics reports this many accounts at most (head(10))
TopAccounts == 10
\* get_volume_growth averages this many of the latest daily changes (tail(7))
TailDays == 7

(***************************************************************************)
(* What the search collaborator can return.                                *)
(***************************************************************************)
Texts == {"a", "b", "c", "d"}

\* the author joined to a tweet from includes.users: absent, or its metrics
NoUser == [missing |-> TRUE]
User(f) == [followers_count |-> f]

Tweet(text, likes, user) ==
    [text |-> text, like_count |-> likes, retweet_count |-> 0, user |-> user]

\* tweets as the collaborator returns them, joined with their author: every
\* text by an author just above the gate, one text twice with other likes,
\* and tweets of authors at the gate, below it and missing from the page
RawTweets ==
    {Tweet(t, 0, User(FollowerGate + 1)) : t \in Texts}
    \cup {Tweet("a", 1, User(FollowerGate + 1)),
          Tweet("a", 0, User(FollowerGate)),
          Tweet("c", 0, User(0)),
          Tweet("b", 0, NoUser)}

\* tweets with likes, retweets and followers that give unlike weights
\* (18, 2, 2.5, 1.5 and 6)
EngagedTweets ==
    {Tweet("a", 16, User(1000)),
     Tweet("b", 0, User(1000)),
     [Tweet("b", 0, User(500)) EXCEPT !.retweet_count = 1],
     Tweet("a", 0, User(500)),
     [Tweet("c", 1, User(2000)) EXCEPT !.retweet_count = 2]}

\* the tweets of the pipeline runs: two texts, authors above and at the gate
FewTweets ==
    {Tweet(t, 0, User(f)) : t \in {"a", "b"}, f \in {FollowerGate, FollowerGate + 1}}

RECURSIVE SeqsUpTo(_, _)
SeqsUpTo(S, n) ==
    IF n = 0 THEN {<<>>}
    ELSE LET shorter == SeqsUpTo(S, n - 1)
         IN  shorter \cup {Append(s, x) : s \in {q \in shorter : Len(q) = n - 1}, x \in S}

\* the data of one page: at most max_results tweets
Pages(tweets) == SeqsUpTo(tweets, max_results)

\* the continuation tokens a page served for `token` may carry: none, or the
\* next page of a chain of at most MaxPages pages
PageIndex(token) == IF token = None THEN 1 ELSE token[1]
NextTokens(token) ==
    {None} \cup (IF PageIndex(token) < MaxPages THEN {Some(PageIndex(token) + 1)} ELSE {})

(***************************************************************************)
(* fetch_tweets                                                            *)
(***************************************************************************)
\* the filter with >= in place of >
KeepsTweet_AtLeast(tweet) ==
    tweet.user # NoUser /\ tweet.user.followers_count >= FollowerGate

\* line 133: the follower filter
KeepsTweet(tweet) ==
    tweet.user # NoUser /\ tweet.user.followers_count > FollowerGate

\* lines 134-140: the row appended for a kept tweet (Created_At is carried
\* along and never read)
Row(tweet) ==
    [Tweets |-> tweet.text, Likes |-> tweet.like_count,
     Retweets |-> tweet.retweet_count,
     Author_Followers |-> tweet.user.followers_count]

RECURSIVE KeptRows(_)
KeptRows(data) ==
    IF data = <<>> THEN <<>>
    ELSE LET rest == KeptRows(Tail(data))
         IN  IF KeepsTweet(Head(data)) THEN <<Row(Head(data))>> \o rest ELSE rest

\* the deduplication with keep='last'
RECURSIVE drop_duplicates_KeepLast(_)
drop_duplicates_KeepLast(rows) ==
    IF rows = <<>> THEN <<>>
    ELSE LET rest == drop_duplicates_KeepLast(Tail(rows))
             first == Head(rows)
         IN  IF \E i \in 1..Len(rest) : rest[i].Tweets = first.Tweets
             THEN rest ELSE <<first>> \o rest

\* line 151: DataFrame.drop_duplicates(subset=['Tweets']), keep='first'
RECURSIVE drop_duplicates(_)
drop_duplicates(rows) ==
    IF rows = <<>> THEN <<>>
    ELSE LET front == drop_duplicates(SubSeq(rows, 1, Len(rows) - 1))
             last == rows[Len(rows)]
         IN  IF \E i \in 1..Len(front) : front[i].Tweets = last.Tweets
             THEN front ELSE Append(front, last)

\* line 115: the loop condition
LoopCondition ==
    Len(all_tweets) < max_tweets /\ (next_token # None \/ all_tweets = <<>>)

\* the except clause with continue in place of break
SearchRaises_Retry ==
    /\ pc = "fetch_loop" /\ LoopCondition /\ search_calls < MaxCalls
    /\ search_calls' = search_calls + 1
    /\ search_raised' = TRUE
    /\ pc' = "fetch_loop"
    /\ UNCHANGED <<symbol, community_accounts, all_tweets, next_token, df, served>>
    /\ UNCHANGED <<scoreVars, modelVars, communityVars, volumeVars, resultVars>>

\* lines 116-127, 144-146: the call raises: logged, break
SearchRaises ==
    /\ pc = "fetch_loop" /\ LoopCondition /\ search_calls < MaxCalls
    /\ search_calls' = search_calls + 1
    /\ search_raised' = TRUE
    /\ pc' = "fetch_dedup"
    /\ UNCHANGED <<symbol, community_accounts, all_tweets, next_token, df, served>>
    /\ UNCHANGED <<scoreVars, modelVars, communityVars, volumeVars, resultVars>>

\* lines 117-127: a page without data: break, the token is not read
SearchEmpty ==
    /\ pc = "fetch_loop" /\ LoopCondition /\ search_calls < MaxCalls
    /\ search_calls' = search_calls + 1
    /\ pc' = "fetch_dedup"
    /\ UNCHANGED <<symbol, community_accounts, all_tweets, next_token, df, search_raised, served>>
    /\ UNCHANGED <<scoreVars, modelVars, communityVars, volumeVars, resultVars>>

\* lines 117-142: a page with data: filter, append, take the page's token
SearchPage(tweets) ==
    /\ pc = "fetch_loop" /\ LoopCondition /\ search_calls < MaxCalls
    /\ \E data \in Pages(tweets) \ {<<>>}, token \in NextTokens(next_token) :
        /\ all_tweets' = all_tweets \o KeptRows(data)
        /\ next_token' = token
        /\ served' = served \cup {data[i] : i \in 1..Len(data)}
    /\ search_calls' = search_calls + 1
    /\ pc' = "fetch_loop"
    /\ UNCHANGED <<symbol, community_accounts, df, search_raised>>
    /\ UNCHANGED <<scoreVars, modelVars, communityVars, volumeVars, resultVars>>

\* line 115: the loop condition is false
LoopExit ==
    /\ pc = "fetch_loop" /\ ~LoopCondition
    /\ pc' = "fetch_dedup"
    /\ UNCHANGED <<symbol, community_accounts, df, fetchVars>>
    /\ UNCHANGED <<scoreVars, modelVars, communityVars, volumeVars, resultVars>>

\* lines 148-152: the empty frame, or the rows without duplicate texts
FetchReturn ==
    /\ pc = "fetch_dedup"
    /\ df' = IF all_tweets = <<>> THEN <<>> ELSE drop_duplicates(all_tweets)
    /\ pc' = "fetched"
    /\ UNCHANGED <<symbol, community_accounts, fetchVars>>
    /\ UNCHANGED <<scoreVars, modelVars, communityVars, volumeVars, resultVars>>

fetch_tweets(tweets) ==
    \/ SearchRaises
    \/ SearchEmpty
    \/ SearchPage(tweets)
    \/ LoopExit
    \/ FetchReturn

(***************************************************************************)
(* load_model, run by one thread with no other thread inside it            *)
(***************************************************************************)
\* lines 24-37: both globals are set by the caller that finds one missing;
\* the objects are named after the thread that constructed them
LoadModelAlone(t) ==
    /\ IF _tokenizer = None \/ _model = None
       THEN /\ _tokenizer' = Some(t)
            /\ _model' = Some(t)
            /\ evaluated' = evaluated \cup {t}
            /\ model_loads' = model_loads + 1
       ELSE UNCHANGED <<_tokenizer, _model, evaluated, model_loads>>
    /\ UNCHANGED threads

(***************************************************************************)
(* load_model, run by several worker threads (asyncio.to_thread runs each  *)
(* analyze_symbol on a thread of the default executor; get_ml_sentiment    *)
(* calls load_model for every row).  A step is one access to the globals.  *)
(***************************************************************************)
Threads == 1..NumThreads

At(t, where) == threads[t].pc = where
Goto(t, where) == threads' = [threads EXCEPT ![t].pc = where]

\* line 91: get_ml_sentiment calls load_model
CallLoadModel(t) ==
    /\ At(t, "idle") /\ threads[t].calls < MaxLoadCalls
    /\ Goto(t, "l27")
    /\ UNCHANGED <<_tokenizer, _model, evaluated, model_loads>>
    /\ UNCHANGED pipelineVars

\* line 27: the test of the two globals
CheckLoaded(t) ==
    /\ At(t, "l27")
    /\ IF _tokenizer = None \/ _model = None THEN Goto(t, "l29") ELSE Goto(t, "l37")
    /\ UNCHANGED <<_tokenizer, _model, evaluated, model_loads>>
    /\ UNCHANGED pipelineVars

\* lines 28-31: the tokenizer is constructed and stored
StoreTokenizer(t) ==
    /\ At(t, "l29")
    /\ _tokenizer' = Some(t)
    /\ Goto(t, "l32")
    /\ UNCHANGED <<_model, evaluated, model_loads>>
    /\ UNCHANGED pipelineVars

\* lines 32-34: the model is constructed and stored
StoreModel(t) ==
    /\ At(t, "l32")
    /\ _model' = Some(t)
    /\ model_loads' = model_loads + 1
    /\ Goto(t, "l35")
    /\ UNCHANGED <<_tokenizer, evaluated>>
    /\ UNCHANGED pipelineVars

\* line 35: eval() on whatever the global holds now
EvalModel(t) ==
    /\ At(t, "l35")
    /\ evaluated' = evaluated \cup {_model[1]}
    /\ Goto(t, "l37")
    /\ UNCHANGED <<_tokenizer, _model, model_loads>>
    /\ UNCHANGED pipelineVars

\* line 37: the globals are returned
ReturnHandle(t) ==
    /\ At(t, "l37")
    /\ threads' = [threads EXCEPT ![t] =
            [pc |-> "idle", calls |-> @.calls + 1,
             handle |-> Some([tokenizer |-> _tokenizer[1], model |-> _model[1]])]]
    /\ UNCHANGED <<_tokenizer, _model, evaluated, model_loads>>
    /\ UNCHANGED pipelineVars

load_model(t) ==
    \/ CallLoadModel(t)
    \/ CheckLoaded(t)
    \/ StoreTokenizer(t)
    \/ StoreModel(t)
    \/ EvalModel(t)
    \/ ReturnHandle(t)

(***************************************************************************)
(* get_ml_sentiment and the scoring of analyze_symbol                      *)
(***************************************************************************)
\* what the classifier answers: probabilities of negative, neutral, positive
Probabilities(neg, neu, pos) == [negative |-> neg, neutral |-> neu, positive |-> pos]

\* the answers of the pipeline runs: all the mass on one label
SureAnswers ==
    {Probabilities(Frac(1, 1), Zero, Zero),
     Probabilities(Zero, Frac(1, 1), Zero),
     Probabilities(Zero, Zero, Frac(1, 1))}

\* answers around the thresholds of get_sentiment: polarity 1, -1, 0.05,
\* -0.05, 0.04 and 0
ThresholdAnswers ==
    {Probabilities(Zero, Zero, Frac(1, 1)),
     Probabilities(Frac(1, 1), Zero, Zero),
     Probabilities(Zero, Frac(95, 100), Frac(5, 100)),
     Probabilities(Frac(5, 100), Frac(95, 100), Zero),
     Probabilities(Zero, Frac(96, 100), Frac(4, 100)),
     Probabilities(Zero, Frac(1, 1), Zero)}

\* lines 103-105: positive probability minus negative probability
Score(probs) == FracAdd(probs.positive, FracMul(Frac(-1, 1), probs.negative))

\* the thresholds with both boundaries exclusive
get_sentiment_Strict(score) ==
    IF ~FracLeq(Frac(-5, 100), score) THEN "Negative"
    ELSE IF ~FracLeq(score, Frac(5, 100)) THEN "Positive"
    ELSE "Neutral"

\* lines 282-288
get_sentiment(score) ==
    IF FracLeq(score, Frac(-5, 100)) THEN "Negative"
    ELSE IF FracLeq(Frac(5, 100), score) THEN "Positive"
    ELSE "Neutral"

\* lines 294, 296: likes + retweets + followers / 1000 + 1
Weight(row) ==
    FracAdd(Frac(row.Likes + row.Retweets, 1),
            FracAdd(Frac(row.Author_Followers, 1000), Frac(1, 1)))

\* lines 293-297
WeightedPolarity(rows, pol) ==
    LET weights == [i \in 1..Len(rows) |-> Weight(rows[i])]
        weighted == [i \in 1..Len(rows) |-> FracMul(pol[i], weights[i])]
        total_weight == FracSum(weights)
    IN  IF ~FracLeq(total_weight, Zero)
        THEN FracDiv(FracSum(weighted), total_weight)
        ELSE Zero

\* lines 241-252: the search term and the client are built, fetch_tweets is
\* entered with its locals fresh
Start ==
    /\ pc = "start"
    /\ pc' = "fetch_loop"
    /\ all_tweets' = <<>> /\ next_token' = None
    /\ UNCHANGED <<symbol, community_accounts, df, search_calls, search_raised, served>>
    /\ UNCHANGED <<scoreVars, modelVars, communityVars, volumeVars, resultVars>>

\* the empty path with the count-series call made before the result is built
EmptyResult_StillCounts ==
    /\ pc = "fetched" /\ df = <<>>
    /\ count_calls' = count_calls + 1
    /\ pc' = "assemble"
    /\ volume_growth' = Some(Zero)
    /\ aggregate' = Some(
        [Sentiment |-> <<>>, avg_weighted_polarity |-> Zero,
         avg_likes |-> Zero, avg_retweets |-> Zero])
    /\ community_metrics' =
        Some([avg_followers |-> Zero, total_followers |-> 0, top_accounts |-> <<>>])
    /\ all_tweets' = <<>> /\ next_token' = None
    /\ UNCHANGED <<symbol, community_accounts, df, search_calls, search_raised, served>>
    /\ UNCHANGED <<result, http_status, count_raised, counts_response>>
    /\ UNCHANGED <<user_data, lookup_i, lookup_log>>
    /\ UNCHANGED <<scoreVars, modelVars>>

\* lines 254-272: the empty frame: the fixed result, returned at once
EmptyResult ==
    /\ pc = "fetched" /\ df = <<>>
    /\ result' = Some(
        [symbol |-> symbol,
         weighted_polarity |-> Zero,
         sentiment |-> "Neutral",
         volume_growth |-> Zero,
         community_growth |->
            [avg_followers |-> Zero, total_followers |-> 0, top_accounts |-> <<>>],
         engagement_metrics |->
            [avg_likes |-> Zero, avg_retweets |-> Zero, total_tweets |-> 0],
         timestamp |-> "now"])
    /\ pc' = "returned"
    /\ all_tweets' = <<>> /\ next_token' = None
    /\ UNCHANGED <<symbol, community_accounts, df, search_calls, search_raised, served>>
    /\ UNCHANGED <<aggregate, http_status>>
    /\ UNCHANGED <<scoreVars, modelVars, communityVars, volumeVars>>

\* lines 254, 275-279: a non-empty frame: the texts are cleaned and the
\* scoring of the rows begins (clean_tweet acts on text the model keeps opaque)
BeginScoring ==
    /\ pc = "fetched" /\ df # <<>>
    /\ pc' = "score"
    /\ polarity' = <<>>
    /\ all_tweets' = <<>> /\ next_token' = None
    /\ UNCHANGED <<symbol, community_accounts, df, search_calls, search_raised, served>>
    /\ UNCHANGED <<classify_calls, classifier_raised>>
    /\ UNCHANGED <<modelVars, communityVars, volumeVars, resultVars>>

\* line 279 with lines 91-107: the next row is scored
ScoreTweet(answers) ==
    /\ pc = "score" /\ Len(polarity) < Len(df)
    /\ LoadModelAlone(0)
    /\ classify_calls' = classify_calls + 1
    /\ \E probs \in answers : polarity' = Append(polarity, Score(probs))
    /\ UNCHANGED <<pc, symbol, community_accounts, df, fetchVars, classifier_raised>>
    /\ UNCHANGED <<communityVars, volumeVars, resultVars>>

\* the raise caught around the row, which is scored 0.0
ClassifierRaises_Swallowed ==
    /\ pc = "score" /\ Len(polarity) < Len(df)
    /\ LoadModelAlone(0)
    /\ classify_calls' = classify_calls + 1
    /\ classifier_raised' = TRUE
    /\ polarity' = Append(polarity, Zero)
    /\ UNCHANGED <<pc, symbol, community_accounts, df, fetchVars>>
    /\ UNCHANGED <<communityVars, volumeVars, resultVars>>

\* line 279 with lines 93-96: the classifier raises on the next row; nothing
\* in analyze_symbol catches it
ClassifierRaises ==
    /\ pc = "score" /\ Len(polarity) < Len(df)
    /\ LoadModelAlone(0)
    /\ classify_calls' = classify_calls + 1
    /\ classifier_raised' = TRUE
    /\ pc' = "raised"
    /\ UNCHANGED <<symbol, community_accounts, df, fetchVars, polarity>>
    /\ UNCHANGED <<communityVars, volumeVars, resultVars>>

\* lines 290-301: labels, weighted polarity and engagement means
Aggregate ==
    /\ pc = "score" /\ Len(polarity) = Len(df)
    /\ aggregate' = Some(
        [Sentiment |-> [i \in 1..Len(df) |-> get_sentiment(polarity[i])],
         avg_weighted_polarity |-> WeightedPolarity(df, polarity),
         avg_likes |-> Mean(Column(df, "Likes")),
         avg_retweets |-> Mean(Column(df, "Retweets"))])
    /\ pc' = "community"
    /\ UNCHANGED <<symbol, community_accounts, df, fetchVars, scoreVars, modelVars>>
    /\ UNCHANGED <<communityVars, volumeVars, result, http_status>>

(***************************************************************************)
(* get_community_metrics                                                   *)
(***************************************************************************)
Usernames == {"alice", "bob", "ghost", "boom"}

\* the account collaborator: get_user answers with data, answers without
\* data (unknown account), or raises
get_user(username) ==
    CASE username = "alice" ->
            [raised |-> FALSE,
             data |-> Some([followers_count |-> 300, tweet_count |-> 30, listed_count |-> 3])]
      [] username = "bob" ->
            [raised |-> FALSE,
             data |-> Some([followers_count |-> 200, tweet_count |-> 20, listed_count |-> 2])]
      [] username = "ghost" -> [raised |-> FALSE, data |-> None]
      [] OTHER -> [raised |-> TRUE, data |-> None]

\* the rollup with the mean of an empty column
ZeroRollup_NanMean == [avg_followers |-> NaN, total_followers |-> 0, top_accounts |-> <<>>]

\* lines 158-162, 181-185
ZeroRollup == [avg_followers |-> Zero, total_followers |-> 0, top_accounts |-> <<>>]

\* line 157: `not community_accounts` holds of None and of the empty list
NoAccounts(accounts) == IF accounts = None THEN TRUE ELSE accounts[1] = <<>>

\* lines 169-175
UserRow(username, metrics) ==
    [username |-> username,
     followers |-> metrics.followers_count,
     tweet_count |-> metrics.tweet_count,
     listed_count |-> metrics.listed_count]

\* line 188: sort_values('followers', ascending=False); the order among equal
\* follower counts is whatever the sort leaves
RECURSIVE SortedDescending(_)
SortedDescending(rows) ==
    IF rows = <<>> THEN {<<>>}
    ELSE LET n == Len(rows)
             largest == {rows[i] : i \in {k \in 1..n :
                            \A j \in 1..n : rows[k].followers >= rows[j].followers}}
         IN  UNION {{<<row>> \o rest : rest \in SortedDescending(RemoveFirst(rows, row))} :
                        row \in largest}

Min(a, b) == IF a <= b THEN a ELSE b

\* line 193: DataFrame.head
Head_(rows, n) == SubSeq(rows, 1, Min(n, Len(rows)))

\* the rollup with mean and sum taken over the reported accounts only
Rollups_TopOnly(rows) ==
    {[avg_followers |-> Mean(Column(Head_(sorted, TopAccounts), "followers")),
      total_followers |-> IntSum(Column(Head_(sorted, TopAccounts), "followers")),
      top_accounts |-> Head_(sorted, TopAccounts)] : sorted \in SortedDescending(rows)}

\* lines 187-194: the rollups a non-empty user_data can give
Rollups(rows) ==
    {[avg_followers |-> Mean(Column(rows, "followers")),
      total_followers |-> IntSum(Column(rows, "followers")),
      top_accounts |-> Head_(sorted, TopAccounts)] : sorted \in SortedDescending(rows)}

\* lines 157-162: no list, or an empty one
CommunityNone ==
    /\ pc = "community" /\ NoAccounts(community_accounts)
    /\ community_metrics' = Some(ZeroRollup)
    /\ pc' = "volume"
    /\ UNCHANGED <<user_data, lookup_i, lookup_log>>
    /\ UNCHANGED <<symbol, community_accounts, df, fetchVars, scoreVars, modelVars>>
    /\ UNCHANGED <<volumeVars, resultVars>>

\* lines 157, 164-165: the loop over the list begins
CommunityBegin ==
    /\ pc = "community" /\ ~NoAccounts(community_accounts)
    /\ user_data' = <<>>
    /\ lookup_i' = 1
    /\ pc' = "lookup"
    /\ UNCHANGED <<lookup_log, community_metrics>>
    /\ UNCHANGED <<symbol, community_accounts, df, fetchVars, scoreVars, modelVars>>
    /\ UNCHANGED <<volumeVars, resultVars>>

\* lines 165-175: the account is found and its row appended
LookupFound ==
    /\ pc = "lookup" /\ lookup_i <= Len(community_accounts[1])
    /\ LET username == community_accounts[1][lookup_i]
           user == get_user(username)
       IN  /\ ~user.raised /\ user.data # None
           /\ lookup_log' = Append(lookup_log, username)
           /\ user_data' = Append(user_data, UserRow(username, user.data[1]))
    /\ lookup_i' = lookup_i + 1
    /\ UNCHANGED <<pc, community_metrics>>
    /\ UNCHANGED <<symbol, community_accounts, df, fetchVars, scoreVars, modelVars>>
    /\ UNCHANGED <<volumeVars, resultVars>>

\* the skip with break in place of continue
LookupSkipped_Aborts ==
    /\ pc = "lookup" /\ lookup_i <= Len(community_accounts[1])
    /\ LET username == community_accounts[1][lookup_i]
           user == get_user(username)
       IN  /\ user.raised \/ user.data = None
           /\ lookup_log' = Append(lookup_log, username)
    /\ lookup_i' = Len(community_accounts[1]) + 1
    /\ UNCHANGED <<pc, user_data, community_metrics>>
    /\ UNCHANGED <<symbol, community_accounts, df, fetchVars, scoreVars, modelVars>>
    /\ UNCHANGED <<volumeVars, resultVars>>

\* lines 165-168, 176-178: the lookup raises (logged, continue) or answers
\* without data: the account is skipped
LookupSkipped ==
    /\ pc = "lookup" /\ lookup_i <= Len(community_accounts[1])
    /\ LET username == community_accounts[1][lookup_i]
           user == get_user(username)
       IN  /\ user.raised \/ user.data = None
           /\ lookup_log' = Append(lookup_log, username)
    /\ lookup_i' = lookup_i + 1
    /\ UNCHANGED <<pc, user_data, community_metrics>>
    /\ UNCHANGED <<symbol, community_accounts, df, fetchVars, scoreVars, modelVars>>
    /\ UNCHANGED <<volumeVars, resultVars>>

\* lines 180-185: no account was found
RollupZero ==
    /\ pc = "lookup" /\ lookup_i > Len(community_accounts[1])
    /\ user_data = <<>>
    /\ community_metrics' = Some(ZeroRollup)
    /\ pc' = "volume"
    /\ UNCHANGED <<user_data, lookup_i, lookup_log>>
    /\ UNCHANGED <<symbol, community_accounts, df, fetchVars, scoreVars, modelVars>>
    /\ UNCHANGED <<volumeVars, resultVars>>

\* lines 180, 187-194: sort, mean, sum, head
Rollup ==
    /\ pc = "lookup" /\ lookup_i > Len(community_accounts[1])
    /\ user_data # <<>>
    /\ \E rollup \in Rollups(user_data) : community_metrics' = Some(rollup)
    /\ pc' = "volume"
    /\ UNCHANGED <<user_data, lookup_i, lookup_log>>
    /\ UNCHANGED <<symbol, community_accounts, df, fetchVars, scoreVars, modelVars>>
    /\ UNCHANGED <<volumeVars, resultVars>>

get_community_metrics ==
    \/ CommunityNone
    \/ CommunityBegin
    \/ LookupFound
    \/ LookupSkipped
    \/ RollupZero
    \/ Rollup

(***************************************************************************)
(* get_volume_growth                                                       *)
(***************************************************************************)
\* one daily bucket of the count-series collaborator
Bucket(day, count) == [end |-> day, tweet_count |-> count]

\* the series of the pipeline runs: up to two days, in date order
FewSeries ==
    {<<>>}
    \cup {<<Bucket(1, c)>> : c \in {0, 10}}
    \cup {<<Bucket(1, c), Bucket(2, d)>> : c \in {0, 10}, d \in {0, 20}}

\* the counts of a day on which the term was tweeted
DayCounts == {10, 20}

\* the series of get_volume_growth on its own: one bucket for each of the
\* days 1..n, count 0 on the days before the term was first tweeted (`quiet`
\* of them), answered in date order or latest day first
DailySeries ==
    UNION {UNION {{[i \in 1..n |-> Bucket(i, IF i <= quiet THEN 0 ELSE c[i])],
                   [i \in 1..n |-> Bucket(n + 1 - i,
                        IF n + 1 - i <= quiet THEN 0 ELSE c[n + 1 - i])]} :
                        c \in [1..n -> DayCounts], quiet \in 0..n} : n \in 0..MaxDays}

\* line 213: sort_values('Date'); the order among equal dates is whatever
\* the sort leaves
RECURSIVE SortedByDate(_)
SortedByDate(rows) ==
    IF rows = <<>> THEN {<<>>}
    ELSE LET n == Len(rows)
             earliest == {rows[i] : i \in {k \in 1..n : \A j \in 1..n : rows[k].end <= rows[j].end}}
         IN  UNION {{<<row>> \o rest : rest \in SortedByDate(RemoveFirst(rows, row))} :
                        row \in earliest}

\* line 214: Series.pct_change() * 100 as IEEE arithmetic gives it: the first
\* row has no predecessor (NaN), 0/0 is NaN, x/0 is inf for x > 0
PctChange(counts) ==
    [i \in 1..Len(counts) |->
        IF i = 1 THEN NaN
        ELSE IF counts[i - 1] = 0
             THEN (IF counts[i] = 0 THEN NaN ELSE Inf)
             ELSE Frac(100 * (counts[i] - counts[i - 1]), counts[i - 1])]

\* the first rows in place of the last
Tail_FromStart(xs, n) == SubSeq(xs, 1, Min(n, Len(xs)))

\* line 217: Series.tail
Tail_(xs, n) == SubSeq(xs, Len(xs) - Min(n, Len(xs)) + 1, Len(xs))

IsNumber(x) == x.kind # "nan"
IsInf(x) == x.kind = "inf"

\* line 217: Series.mean() skips NaN; it is NaN when nothing is left, and
\* inf when an inf is among the values (no -inf can arise here)
NanMean(xs) ==
    LET values == SelectSeq(xs, IsNumber)
    IN  IF values = <<>> THEN NaN
        ELSE IF SelectSeq(values, IsInf) # <<>> THEN Inf
        ELSE FracDiv(FracSum(values), Frac(Len(values), 1))

\* lines 201-218 for the rows in date order
GrowthOfSorted(rows) ==
    LET recent_growth == NanMean(Tail_(PctChange(Column(rows, "tweet_count")), TailDays))
    IN  IF recent_growth.kind # "nan" THEN recent_growth ELSE Zero

\* lines 201-218: the values get_volume_growth can return for an answer
Growths(data) ==
    IF data = <<>> \/ Len(data) < 2 THEN {Zero}
    ELSE {GrowthOfSorted(rows) : rows \in SortedByDate(data)}

\* the call raising with no except clause around it
CountRaises_Propagates ==
    /\ pc = "volume"
    /\ count_calls' = count_calls + 1
    /\ count_raised' = TRUE
    /\ pc' = "raised"
    /\ UNCHANGED <<counts_response, volume_growth>>
    /\ UNCHANGED <<symbol, community_accounts, df, fetchVars, scoreVars, modelVars>>
    /\ UNCHANGED <<communityVars, resultVars>>

\* lines 199-200, 220-222: the call raises: logged, 0.0
CountRaises ==
    /\ pc = "volume"
    /\ count_calls' = count_calls + 1
    /\ count_raised' = TRUE
    /\ volume_growth' = Some(Zero)
    /\ pc' = "assemble"
    /\ UNCHANGED counts_response
    /\ UNCHANGED <<symbol, community_accounts, df, fetchVars, scoreVars, modelVars>>
    /\ UNCHANGED <<communityVars, resultVars>>

\* lines 199-218: the call answers
CountAnswers(series) ==
    /\ pc = "volume"
    /\ count_calls' = count_calls + 1
    /\ \E data \in series : \E growth \in Growths(data) :
        /\ counts_response' = Some(data)
        /\ volume_growth' = Some(growth)
    /\ pc' = "assemble"
    /\ UNCHANGED count_raised
    /\ UNCHANGED <<symbol, community_accounts, df, fetchVars, scoreVars, modelVars>>
    /\ UNCHANGED <<communityVars, resultVars>>

get_volume_growth(series) ==
    \/ CountRaises
    \/ CountAnswers(series)

(***************************************************************************)
(* analyze_symbol: the result; analyze_sentiment: the response             *)
(***************************************************************************)
\* lines 310-339
Assemble ==
    /\ pc = "assemble"
    /\ result' = Some(
        [symbol |-> symbol,
         weighted_polarity |-> aggregate[1].avg_weighted_polarity,
         sentiment |-> get_sentiment(aggregate[1].avg_weighted_polarity),
         volume_growth |-> volume_growth[1],
         community_growth |->
            [avg_followers |-> community_metrics[1].avg_followers,
             total_followers |-> community_metrics[1].total_followers,
             top_accounts |-> community_metrics[1].top_accounts],
         engagement_metrics |->
            [avg_likes |-> aggregate[1].avg_likes,
             avg_retweets |-> aggregate[1].avg_retweets,
             total_tweets |-> Len(df)],
         timestamp |-> "now"])
    /\ pc' = "returned"
    /\ UNCHANGED <<aggregate, http_status>>
    /\ UNCHANGED <<symbol, community_accounts, df, fetchVars, scoreVars, modelVars>>
    /\ UNCHANGED <<communityVars, volumeVars>>

\* main.py lines 88-96: analyze_symbol returned: the handler returns the
\* result as its response model (status 200 unless the framework fails later)
Respond ==
    /\ pc = "returned"
    /\ http_status' = Some(200)
    /\ pc' = "responded"
    /\ UNCHANGED <<aggregate, result>>
    /\ UNCHANGED <<symbol, community_accounts, df, fetchVars, scoreVars, modelVars>>
    /\ UNCHANGED <<communityVars, volumeVars>>

\* main.py lines 98-100: analyze_symbol raised: HTTPException, status 500
RespondError ==
    /\ pc = "raised"
    /\ http_status' = Some(500)
    /\ pc' = "responded"
    /\ UNCHANGED <<aggregate, result>>
    /\ UNCHANGED <<symbol, community_accounts, df, fetchVars, scoreVars, modelVars>>
    /\ UNCHANGED <<communityVars, volumeVars>>

analyze_symbol ==
    \/ Start
    \/ fetch_tweets(FewTweets)
    \/ EmptyResult
    \/ BeginScoring
    \/ ScoreTweet(SureAnswers)
    \/ ClassifierRaises
    \/ Aggregate
    \/ get_community_metrics
    \/ get_volume_growth(FewSeries)
    \/ Assemble

analyze_sentiment ==
    \/ analyze_symbol
    \/ Respond
    \/ RespondError

(***************************************************************************)
(* fetch_tweets called on its own (lines 112-113 are its initial state)    *)
(***************************************************************************)
\* the state before any call: nothing fetched, scored, looked up or loaded
Idle ==
    /\ all_tweets = <<>> /\ next_token = None /\ df = <<>>
    /\ search_calls = 0 /\ search_raised = FALSE /\ served = {}
    /\ polarity = <<>> /\ classify_calls = 0 /\ classifier_raised = FALSE
    /\ _tokenizer = None /\ _model = None /\ evaluated = {} /\ model_loads = 0
    /\ threads = <<>>
    /\ user_data = <<>> /\ lookup_i = 1 /\ lookup_log = <<>> /\ community_metrics = None
    /\ count_calls = 0 /\ count_raised = FALSE
    /\ counts_response = None /\ volume_growth = None
    /\ aggregate = None /\ result = None /\ http_status = None

InitFetch ==
    /\ pc = "fetch_loop"
    /\ symbol = "SYM"
    /\ community_accounts = None
    /\ Idle

NextFetch == fetch_tweets(RawTweets)

SpecFetch == InitFetch /\ [][NextFetch]_vars

(***************************************************************************)
(* get_community_metrics called on its own                                 *)
(***************************************************************************)
AccountLists(n) == {None} \cup {Some(list) : list \in SeqsUpTo(Usernames, n)}

\* lists with more accounts found than get_community_metrics reports: one
\* more than that of "alice" and "bob" in any order, alone or after an
\* account that is unknown or whose lookup raises
LongAccountLists ==
    {Some(front \o rest) : front \in {<<>>, <<"ghost">>, <<"boom">>},
                            rest \in [1..(TopAccounts + 1) -> {"alice", "bob"}]}

InitCommunity ==
    /\ pc = "community"
    /\ symbol = "SYM"
    /\ community_accounts \in AccountLists(MaxAccounts) \cup LongAccountLists
    /\ Idle

NextCommunity == get_community_metrics

SpecCommunity == InitCommunity /\ [][NextCommunity]_vars

(***************************************************************************)
(* get_volume_growth called on its own                                     *)
(***************************************************************************)
InitVolume ==
    /\ pc = "volume"
    /\ symbol = "SYM"
    /\ community_accounts = None
    /\ Idle

NextVolume == get_volume_growth(DailySeries)

SpecVolume == InitVolume /\ [][NextVolume]_vars

(***************************************************************************)
(* One request to the service                                              *)
(***************************************************************************)
Init ==
    /\ pc = "start"
    /\ symbol = "SYM"
    /\ community_accounts \in AccountLists(MaxRequestAccounts)
    /\ Idle

Next == analyze_sentiment

Spec == Init /\ [][Next]_vars

(***************************************************************************)
(* analyze_symbol from the return of fetch_tweets on, the batch being one  *)
(* page of engaged tweets served without continuation token                *)
(***************************************************************************)
InitAggregate ==
    /\ pc = "fetched"
    /\ symbol = "SYM"
    /\ community_accounts = None
    /\ \E data \in SeqsUpTo(EngagedTweets, MaxBatch) \ {<<>>} :
        /\ all_tweets = KeptRows(data)
        /\ df = drop_duplicates(KeptRows(data))
        /\ served = {data[i] : i \in 1..Len(data)}
    /\ next_token = None /\ search_calls = 1 /\ search_raised = FALSE
    /\ polarity = <<>> /\ classify_calls = 0 /\ classifier_raised = FALSE
    /\ _tokenizer = None /\ _model = None /\ evaluated = {} /\ model_loads = 0
    /\ threads = <<>>
    /\ user_data = <<>> /\ lookup_i = 1 /\ lookup_log = <<>> /\ community_metrics = None
    /\ count_calls = 0 /\ count_raised = FALSE
    /\ counts_response = None /\ volume_growth = None
    /\ aggregate = None /\ result = None /\ http_status = None

NextAggregate ==
    \/ BeginScoring
    \/ ScoreTweet(ThresholdAnswers)
    \/ Aggregate
    \/ CommunityNone
    \/ get_volume_growth(FewSeries)
    \/ Assemble

SpecAggregate == InitAggregate /\ [][NextAggregate]_vars

(***************************************************************************)
(* Collaborators that answer the same request the same way every time.     *)
(* The search term is built from the symbol (line 245), so the symbol      *)
(* stands for the query.                                                   *)
(***************************************************************************)
Symbols == {"SYM", "ERR", "NIL", "BAD"}

\* client.search_recent_tweets: two pages for SYM, a page and then a raise
\* for ERR, one page for BAD, no data for every other query
search_recent_tweets(query, token) ==
    CASE query = "SYM" /\ token = None ->
            [raised |-> FALSE,
             data |-> <<Tweet("a", 0, User(FollowerGate + 1)),
                        Tweet("b", 0, User(FollowerGate))>>,
             next_token |-> Some(2)]
      [] query = "SYM" /\ token = Some(2) ->
            [raised |-> FALSE,
             data |-> <<Tweet("a", 1, User(FollowerGate + 1)),
                        Tweet("b", 0, User(FollowerGate + 1))>>,
             next_token |-> None]
      [] query = "ERR" /\ token = None ->
            [raised |-> FALSE,
             data |-> <<Tweet("b", 1, User(1000))>>,
             next_token |-> Some(2)]
      [] query = "ERR" /\ token = Some(2) ->
            [raised |-> TRUE, data |-> <<>>, next_token |-> None]
      [] query = "BAD" /\ token = None ->
            [raised |-> FALSE,
             data |-> <<Tweet("a", 0, User(1000)), Tweet("c", 0, User(1000))>>,
             next_token |-> None]
      [] OTHER -> [raised |-> FALSE, data |-> <<>>, next_token |-> None]

\* the classifier: an answer for the texts "a" and "b", a raise for any other
classify(text) ==
    CASE text = "a" -> [raised |-> FALSE, probs |-> Probabilities(Zero, Zero, Frac(1, 1))]
      [] text = "b" ->
            [raised |-> FALSE, probs |-> Probabilities(Frac(1, 2), Frac(1, 4), Frac(1, 4))]
      [] OTHER -> [raised |-> TRUE, probs |-> Probabilities(Zero, Zero, Zero)]

\* client.get_recent_tweets_count: two days for SYM, a raise for ERR, no data
\* for every other query
get_recent_tweets_count(query) ==
    CASE query = "SYM" -> [raised |-> FALSE, data |-> <<Bucket(1, 10), Bucket(2, 20)>>]
      [] query = "ERR" -> [raised |-> TRUE, data |-> <<>>]
      [] OTHER -> [raised |-> FALSE, data |-> <<>>]

\* lines 116-146 against search_recent_tweets
FixedSearch ==
    LET response == search_recent_tweets(symbol, next_token)
    IN  \/ response.raised /\ SearchRaises
        \/ ~response.raised /\ response.data = <<>> /\ SearchEmpty
        \/ /\ ~response.raised /\ response.data # <<>>
           /\ SearchPage({response.data[i] : i \in 1..Len(response.data)})
           /\ all_tweets' = all_tweets \o KeptRows(response.data)
           /\ next_token' = response.next_token
           /\ served' = served \cup {response.data[i] : i \in 1..Len(response.data)}

\* line 279 against classify
FixedScore ==
    /\ pc = "score" /\ Len(polarity) < Len(df)
    /\ LET answer == classify(df[Len(polarity) + 1].Tweets)
       IN  \/ answer.raised /\ ClassifierRaises
           \/ ~answer.raised /\ ScoreTweet({answer.probs})

\* lines 199-222 against get_recent_tweets_count
FixedCount ==
    LET response == get_recent_tweets_count(symbol)
    IN  \/ response.raised /\ CountRaises
        \/ ~response.raised /\ CountAnswers({response.data})

\* one step of a request against these collaborators
FixedRequest ==
    \/ Start
    \/ FixedSearch
    \/ LoopExit
    \/ FetchReturn
    \/ EmptyResult
    \/ BeginScoring
    \/ FixedScore
    \/ Aggregate
    \/ get_community_metrics
    \/ FixedCount
    \/ Assemble
    \/ Respond
    \/ RespondError

(***************************************************************************)
(* Two invocations of analyze_symbol.  Everything analyze_symbol and its   *)
(* callees touch is a local of the call, but for the two globals of        *)
(* load_model: the variables of the model hold the locals of the           *)
(* invocation that runs, `threads` those of the one that waits.            *)
(***************************************************************************)
Locals ==
    [pc |-> pc, symbol |-> symbol, community_accounts |-> community_accounts,
     all_tweets |-> all_tweets, next_token |-> next_token, df |-> df,
     search_calls |-> search_calls, search_raised |-> search_raised,
     served |-> served, polarity |-> polarity, classify_calls |-> classify_calls,
     classifier_raised |-> classifier_raised, user_data |-> user_data,
     lookup_i |-> lookup_i, lookup_log |-> lookup_log,
     community_metrics |-> community_metrics, count_calls |-> count_calls,
     count_raised |-> count_raised, counts_response |-> counts_response,
     volume_growth |-> volume_growth, aggregate |-> aggregate,
     result |-> result, http_status |-> http_status]

\* the locals of an invocation that has not begun
StartLocals(sym, accounts) ==
    [pc |-> "start", symbol |-> sym, community_accounts |-> accounts,
     all_tweets |-> <<>>, next_token |-> None, df |-> <<>>,
     search_calls |-> 0, search_raised |-> FALSE,
     served |-> {}, polarity |-> <<>>, classify_calls |-> 0,
     classifier_raised |-> FALSE, user_data |-> <<>>,
     lookup_i |-> 1, lookup_log |-> <<>>,
     community_metrics |-> None, count_calls |-> 0,
     count_raised |-> FALSE, counts_response |-> None,
     volume_growth |-> None, aggregate |-> None,
     result |-> None, http_status |-> None]

\* the locals of the other invocation become the current ones
Resume(locals) ==
    /\ pc' = locals.pc /\ symbol' = locals.symbol
    /\ community_accounts' = locals.community_accounts
    /\ all_tweets' = locals.all_tweets /\ next_token' = locals.next_token
    /\ df' = locals.df
    /\ search_calls' = locals.search_calls /\ search_raised' = locals.search_raised
    /\ served' = locals.served /\ polarity' = locals.polarity
    /\ classify_calls' = locals.classify_calls
    /\ classifier_raised' = locals.classifier_raised
    /\ user_data' = locals.user_data /\ lookup_i' = locals.lookup_i
    /\ lookup_log' = locals.lookup_log
    /\ community_metrics' = locals.community_metrics
    /\ count_calls' = locals.count_calls /\ count_raised' = locals.count_raised
    /\ counts_response' = locals.counts_response
    /\ volume_growth' = locals.volume_growth /\ aggregate' = locals.aggregate
    /\ result' = locals.result /\ http_status' = locals.http_status

\* the accumulated posts and the token kept in one place for both invocations
Switch_SharedTweets ==
    /\ threads' = [running |-> 3 - threads.running, waiting |-> Locals]
    /\ Resume([threads.waiting EXCEPT !.all_tweets = all_tweets,
                                      !.next_token = next_token])
    /\ UNCHANGED <<_tokenizer, _model, evaluated, model_loads>>

\* the handle constructed anew for the other invocation
Switch_DropsHandle ==
    /\ threads' = [running |-> 3 - threads.running, waiting |-> Locals]
    /\ Resume(threads.waiting)
    /\ _tokenizer' = None /\ _model' = None
    /\ UNCHANGED <<evaluated, model_loads>>

\* the other invocation runs: the worker thread of main.py line 88 is
\* scheduled, or the call that follows a call that has returned is made
Switch ==
    /\ threads' = [running |-> 3 - threads.running, waiting |-> Locals]
    /\ Resume(threads.waiting)
    /\ UNCHANGED <<_tokenizer, _model, evaluated, model_loads>>

\* the account lists of the two invocations
FixedAccounts == {None, Some(<<"alice">>), Some(<<"boom">>)}

\* nothing fetched, scored, looked up or counted, and nothing loaded
InitTwo(sym, accounts) ==
    /\ pc = "start" /\ symbol = sym /\ community_accounts = accounts
    /\ all_tweets = <<>> /\ next_token = None /\ df = <<>>
    /\ search_calls = 0 /\ search_raised = FALSE /\ served = {}
    /\ polarity = <<>> /\ classify_calls = 0 /\ classifier_raised = FALSE
    /\ _tokenizer = None /\ _model = None /\ evaluated = {} /\ model_loads = 0
    /\ user_data = <<>> /\ lookup_i = 1 /\ lookup_log = <<>> /\ community_metrics = None
    /\ count_calls = 0 /\ count_raised = FALSE
    /\ counts_response = None /\ volume_growth = None
    /\ aggregate = None /\ result = None /\ http_status = None

(***************************************************************************)
(* One invocation on its own against the same collaborators, as a          *)
(* function of its arguments                                               *)
(***************************************************************************)
\* lines 112-146: the rows and the token the loop ends with
RECURSIVE AloneLoop(_, _, _)
AloneLoop(query, rows, token) ==
    IF Len(rows) < max_tweets /\ (token # None \/ rows = <<>>)
    THEN LET response == search_recent_tweets(query, token)
         IN  IF response.raised \/ response.data = <<>>
             THEN [all_tweets |-> rows, next_token |-> token]
             ELSE AloneLoop(query, rows \o KeptRows(response.data), response.next_token)
    ELSE [all_tweets |-> rows, next_token |-> token]

\* lines 148-152
AloneBatch(query) ==
    LET rows == AloneLoop(query, <<>>, None).all_tweets
    IN  IF rows = <<>> THEN <<>> ELSE drop_duplicates(rows)

\* lines 155-194
AloneCommunity(accounts) ==
    IF NoAccounts(accounts) THEN ZeroRollup
    ELSE LET list == accounts[1]
             Known(username) == ~get_user(username).raised /\ get_user(username).data # None
             found == SelectSeq(list, Known)
             rows == [i \in 1..Len(found) |-> UserRow(found[i], get_user(found[i]).data[1])]
         IN  IF rows = <<>> THEN ZeroRollup ELSE CHOOSE rollup \in Rollups(rows) : TRUE

\* lines 197-222
AloneGrowth(query) ==
    LET response == get_recent_tweets_count(query)
    IN  IF response.raised THEN Zero ELSE CHOOSE growth \in Growths(response.data) : TRUE

\* lines 225-339: None when the classifier raises, or the result returned
AloneResult(sym, accounts) ==
    LET batch == AloneBatch(sym)
        answers == [i \in 1..Len(batch) |-> classify(batch[i].Tweets)]
        scores == [i \in 1..Len(batch) |-> Score(answers[i].probs)]
        value == WeightedPolarity(batch, scores)
    IN  IF batch = <<>>
        THEN Some([symbol |-> sym, weighted_polarity |-> Zero, sentiment |-> "Neutral",
                   volume_growth |-> Zero, community_growth |-> ZeroRollup,
                   engagement_metrics |->
                        [avg_likes |-> Zero, avg_retweets |-> Zero, total_tweets |-> 0],
                   timestamp |-> "now"])
        ELSE IF \E i \in 1..Len(batch) : answers[i].raised THEN None
        ELSE Some([symbol |-> sym, weighted_polarity |-> value,
                   sentiment |-> get_sentiment(value),
                   volume_growth |-> AloneGrowth(sym),
                   community_growth |-> AloneCommunity(accounts),
                   engagement_metrics |->
                        [avg_likes |-> Mean(Column(batch, "Likes")),
                         avg_retweets |-> Mean(Column(batch, "Retweets")),
                         total_tweets |-> Len(batch)],
                   timestamp |-> "now"])

(***************************************************************************)
(* Two invocations with the same arguments, one after the other            *)
(***************************************************************************)
InitTwice ==
    \E sym \in Symbols, accounts \in FixedAccounts :
        /\ InitTwo(sym, accounts)
        /\ threads = [running |-> 1, waiting |-> StartLocals(sym, accounts)]

\* the first call has returned to its caller; the second call is made
SecondInvocation ==
    /\ threads.running = 1 /\ pc = "responded"
    /\ Switch

NextTwice ==
    \/ FixedRequest
    \/ SecondInvocation

SpecTwice == InitTwice /\ [][NextTwice]_vars

(***************************************************************************)
(* Two invocations on worker threads at the same time                      *)
(***************************************************************************)
InitConcurrent ==
    \E sym \in Symbols, accounts \in FixedAccounts :
        /\ InitTwo(sym, accounts)
        /\ \E other \in Symbols, list \in FixedAccounts :
            threads = [running |-> 1, waiting |-> StartLocals(other, list)]

NextConcurrent ==
    \/ FixedRequest
    \/ Switch

SpecConcurrent == InitConcurrent /\ [][NextConcurrent]_vars

(***************************************************************************)
(* Worker threads reaching load_model at the same time                     *)
(***************************************************************************)
InitLoad ==
    /\ pc = "score"
    /\ symbol = "SYM"
    /\ community_accounts = None
    /\ all_tweets = <<>> /\ next_token = None /\ df = <<>>
    /\ search_calls = 0 /\ search_raised = FALSE /\ served = {}
    /\ polarity = <<>> /\ classify_calls = 0 /\ classifier_raised = FALSE
    /\ _tokenizer = None /\ _model = None /\ evaluated = {} /\ model_loads = 0
    /\ threads = [t \in Threads |-> [pc |-> "idle", calls |-> 0, handle |-> None]]
    /\ user_data = <<>> /\ lookup_i = 1 /\ lookup_log = <<>> /\ community_metrics = None
    /\ count_calls = 0 /\ count_raised = FALSE
    /\ counts_response = None /\ volume_growth = None
    /\ aggregate = None /\ result = None /\ http_status = None

NextLoad == \E t \in Threads : load_model(t)

SpecLoad == InitLoad /\ [][NextLoad]_vars

(***************************************************************************)
(* Claims about fetch_tweets (SpecFetch)                                   *)
(***************************************************************************)
\* C1: once a page without continuation token has been processed, no further
\* search call is made, whatever the page held (also when every post of it
\* was dropped by the follower filter and nothing is accumulated).
C1_NoSearchAfterLastPage ==
    [][(pc = "fetch_loop" /\ search_calls > 0 /\ next_token = None)
        => search_calls' = search_calls]_vars

\* C3: the batch fetch_tweets returns holds at most max_tweets posts.
C3_BatchWithinCap ==
    pc = "fetched" => Len(df) <= max_tweets

\* C4: once a search call has raised, no further search call is made; the
\* raising call leaves the accumulated rows as they were and ends the loop;
\* the function then returns those rows deduplicated (the empty frame when
\* there are none).
C4_RaiseEndsPagination ==
    /\ [][search_raised => search_calls' = search_calls]_vars
    /\ [][(~search_raised /\ search_raised')
           => (all_tweets' = all_tweets /\ pc' = "fetch_dedup")]_vars
    /\ [](search_raised => pc \in {"fetch_dedup", "fetched"})
    /\ [](search_raised /\ pc = "fetched"
           => /\ df = drop_duplicates(all_tweets)
              /\ (all_tweets = <<>> => df = <<>>))

\* a search call raised after a page had been accumulated, and the function
\* returned a non-empty batch
C4_Witness ==
    /\ pc = "fetched" /\ search_raised
    /\ search_calls >= 2 /\ Len(df) >= 1

\* C10: every post of the returned batch has an author with more than 100
\* followers, and every post served on a fetched page whose author has 101 or
\* more followers is in the batch by its text.
C10_FollowerFilter ==
    /\ \A i \in 1..Len(all_tweets) : all_tweets[i].Author_Followers > 100
    /\ pc = "fetched" =>
        /\ \A i \in 1..Len(df) : df[i].Author_Followers > 100
        /\ \A t \in served :
            (t.user # NoUser /\ t.user.followers_count >= 101)
                => \E i \in 1..Len(df) : df[i].Tweets = t.text

\* a page served a post of a 100-follower author and a post of a 101-follower
\* author with another text; the batch was returned
C10_Witness ==
    /\ pc = "fetched" /\ Len(df) >= 1
    /\ \E t \in served, u \in served :
        /\ t.user # NoUser /\ t.user.followers_count = 100
        /\ u.user # NoUser /\ u.user.followers_count = 101
        /\ \A i \in 1..Len(df) : df[i].Tweets # t.text

\* C11: the returned batch holds no two posts with the same text; each post of
\* it is the first accumulated post with its text, carrying that post's likes,
\* retweets and author followers; every accumulated text is in the batch; and
\* the posts of the batch stand in the order in which they were accumulated.
C11_DedupKeepsFirst ==
    pc = "fetched" =>
        /\ \A i, j \in 1..Len(df) : i # j => df[i].Tweets # df[j].Tweets
        /\ \A k \in 1..Len(all_tweets) : \E i \in 1..Len(df) :
                df[i].Tweets = all_tweets[k].Tweets
        /\ \E at \in [1..Len(df) -> 1..Len(all_tweets)] :
            /\ \A i \in 1..Len(df) :
                /\ df[i] = all_tweets[at[i]]
                /\ \A k \in 1..(at[i] - 1) : all_tweets[k].Tweets # df[i].Tweets
            /\ \A i, j \in 1..Len(df) : i < j => at[i] < at[j]

\* a text was accumulated twice with different likes, the first time after a
\* post with another text, and the batch was returned
C11_Witness ==
    /\ pc = "fetched" /\ Len(df) >= 2
    /\ \E i, j \in 1..Len(all_tweets) :
        /\ 1 < i /\ i < j
        /\ all_tweets[i].Tweets = all_tweets[j].Tweets
        /\ all_tweets[i].Likes # all_tweets[j].Likes
        /\ all_tweets[1].Tweets # all_tweets[i].Tweets

(***************************************************************************)
(* Claims about load_model under concurrent first use (SpecLoad)           *)
(***************************************************************************)
\* C2: whatever the interleaving of the worker threads, the model is
\* constructed at most once.
C2_SingleConstruction ==
    model_loads <= 1

(***************************************************************************)
(* Claims about one request (Spec)                                         *)
(***************************************************************************)
\* C5: when retrieval yields zero posts, no classifier call and no
\* count-series call is made from then on, and the result returned has
\* weighted_polarity 0.0, sentiment Neutral, total_tweets 0, volume_growth 0.0.
C5_EmptyRetrieval ==
    (pc \in {"fetched", "returned", "responded"} /\ df = <<>>) =>
        /\ classify_calls = 0
        /\ count_calls = 0
        /\ pc # "fetched" =>
            /\ result # None
            /\ result[1].weighted_polarity = [kind |-> "num", num |-> 0, den |-> 1]
            /\ result[1].sentiment = "Neutral"
            /\ result[1].engagement_metrics.total_tweets = 0
            /\ result[1].volume_growth = [kind |-> "num", num |-> 0, den |-> 1]

\* retrieval made a search call, yielded nothing, and analyze_symbol returned
C5_Witness ==
    pc = "returned" /\ df = <<>> /\ search_calls >= 1 /\ result # None

\* the accounts of a list all exist
AllFound(list) ==
    \A i \in 1..Len(list) : ~get_user(list[i]).raised /\ get_user(list[i]).data # None

\* C6: when retrieval yields zero posts and the caller gave a non-empty list
\* of accounts whose lookups succeed, the community rollup of the result is
\* the rollup get_community_metrics gives for that list.
C6_EmptyBatchKeepsCommunity ==
    (pc = "returned" /\ df = <<>> /\ ~NoAccounts(community_accounts)) =>
        LET list == community_accounts[1]
            rows == [i \in 1..Len(list) |-> UserRow(list[i], get_user(list[i]).data[1])]
        IN  AllFound(list) => result[1].community_growth \in Rollups(rows)

ResultFields ==
    {"symbol", "weighted_polarity", "sentiment", "volume_growth",
     "community_growth", "engagement_metrics", "timestamp"}

\* C7: the request ends in the failure outcome (analyze_symbol raises, the
\* service answers 500) exactly when the classifier raised; otherwise, whatever
\* the search, account and count-series collaborators raised, it ends with a
\* result holding every field, the metrics of a failed collaborator at zero.
C7_OnlyClassifierFails ==
    /\ pc = "raised" => classifier_raised
    /\ classifier_raised => (pc \in {"raised", "responded"} /\ result = None)
    /\ pc = "responded" =>
        /\ http_status = (IF classifier_raised THEN Some(500) ELSE Some(200))
        /\ ~classifier_raised =>
            /\ result # None
            /\ DOMAIN result[1] = ResultFields
            /\ DOMAIN result[1].community_growth =
                {"avg_followers", "total_followers", "top_accounts"}
            /\ DOMAIN result[1].engagement_metrics =
                {"avg_likes", "avg_retweets", "total_tweets"}
            /\ count_raised =>
                result[1].volume_growth = [kind |-> "num", num |-> 0, den |-> 1]
            /\ (search_raised /\ served = {}) =>
                result[1].engagement_metrics.total_tweets = 0
            /\ (\A i \in 1..Len(lookup_log) : get_user(lookup_log[i]).raised) =>
                result[1].community_growth.total_followers = 0

\* the search, the account lookup and the count series all raised in one
\* request, and the service answered with the result
C7_Witness ==
    /\ pc = "responded" /\ http_status = Some(200)
    /\ search_raised /\ count_raised
    /\ lookup_log # <<>> /\ get_user(lookup_log[1]).raised
    /\ result[1].engagement_metrics.total_tweets >= 1

(***************************************************************************)
(* Claims about get_community_metrics (SpecCommunity)                      *)
(***************************************************************************)
Found(username) == ~get_user(username).raised /\ get_user(username).data # None
Followers(username) == get_user(username).data[1].followers_count

\* C8: for a non-empty list, every account is looked up exactly once, in list
\* order, whichever lookups fail; the rows kept are those of the accounts
\* found, in list order; the rollup returned sums and averages exactly those,
\* and is the zero-value rollup when none was found.
C8_FailedLookupSkipsOne ==
    (community_accounts # None /\ pc \in {"lookup", "volume"}) =>
        LET list == community_accounts[1]
            found == SelectSeq(list, Found)
            total == IntSum([i \in 1..Len(found) |-> Followers(found[i])])
        IN  /\ pc = "lookup" =>
                /\ lookup_log = SubSeq(list, 1, lookup_i - 1)
                /\ Column(user_data, "username") = SelectSeq(lookup_log, Found)
            /\ (pc = "volume" /\ list # <<>>) =>
                /\ lookup_log = list
                /\ community_metrics # None
                /\ community_metrics[1].total_followers = total
                /\ Len(community_metrics[1].top_accounts) = Min(10, Len(found))
                /\ \A u \in Usernames :
                    Len(found) <= 10 =>
                    Cardinality({i \in 1..Len(community_metrics[1].top_accounts) :
                                    community_metrics[1].top_accounts[i].username = u})
                    = Cardinality({i \in 1..Len(found) : found[i] = u})
                /\ IF found = <<>>
                   THEN community_metrics[1].avg_followers
                            = [kind |-> "num", num |-> 0, den |-> 1]
                   ELSE community_metrics[1].avg_followers.num * Len(found)
                            = total * community_metrics[1].avg_followers.den

\* a lookup that raised and one that found no account were followed by a
\* lookup that succeeded, and the rollup was returned
C8_Witness ==
    /\ pc = "volume"
    /\ community_accounts = Some(<<"boom", "ghost", "alice">>)
    /\ community_metrics[1].total_followers > 0

\* C9: with no account list, or an empty one, the collector returns the
\* zero-value rollup and never calls the account collaborator.
C9_NoListNoLookup ==
    NoAccounts(community_accounts) =>
        /\ lookup_log = <<>>
        /\ pc = "volume" =>
            /\ community_metrics # None
            /\ community_metrics[1].avg_followers = [kind |-> "num", num |-> 0, den |-> 1]
            /\ community_metrics[1].total_followers = 0
            /\ community_metrics[1].top_accounts = <<>>

\* the collector returned for the empty list
C9_Witness ==
    pc = "volume" /\ community_accounts = Some(<<>>) /\ community_metrics # None

(***************************************************************************)
(* Claims about the aggregate of a batch (SpecAggregate)                   *)
(***************************************************************************)
\* C12: for a non-empty batch every weight likes + retweets + followers/1000
\* + 1 is at least 1, the weighted polarity of the result is the sum of
\* polarity times weight divided by the sum of the weights, and the sentiment
\* of the result is Negative when that value is <= -0.05, Positive when it is
\* >= 0.05, Neutral otherwise.
C12_WeightedPolarityAndLabel ==
    (pc = "returned" /\ df # <<>>) =>
        LET n == Len(df)
            w == [i \in 1..n |->
                    Frac(1000 * (df[i].Likes + df[i].Retweets + 1)
                            + df[i].Author_Followers, 1000)]
            pw == [i \in 1..n |-> FracMul(polarity[i], w[i])]
            value == result[1].weighted_polarity
        IN  /\ \A i \in 1..n : w[i].num >= w[i].den
            /\ FracSum(w).num > 0
            /\ value.kind = "num"
            /\ value.num * FracSum(w).num * FracSum(pw).den
                    = FracSum(pw).num * value.den * FracSum(w).den
            /\ result[1].sentiment =
                    (IF 100 * value.num <= -5 * value.den THEN "Negative"
                     ELSE IF 100 * value.num >= 5 * value.den THEN "Positive"
                     ELSE "Neutral")

\* polarity 1 at nine times the weight of polarity -1: 0.8 and Positive
C12_Witness ==
    /\ pc = "returned" /\ Len(df) = 2
    /\ df[1].Likes = 16 /\ df[1].Author_Followers = 1000
    /\ df[2].Likes = 0 /\ df[2].Retweets = 0 /\ df[2].Author_Followers = 1000
    /\ polarity = <<[kind |-> "num", num |-> 1, den |-> 1],
                    [kind |-> "num", num |-> -1, den |-> 1]>>
    /\ result[1].weighted_polarity = [kind |-> "num", num |-> 4, den |-> 5]
    /\ result[1].sentiment = "Positive"

(***************************************************************************)
(* Claims about get_volume_growth (SpecVolume)                             *)
(***************************************************************************)
\* C13: the growth get_volume_growth returns is a finite number, whatever
\* zero counts the series holds.
C13_GrowthFinite ==
    pc = "assemble" => volume_growth[1].kind = "num"

\* C14: get_volume_growth never raises; it returns 0.0 when the count-series
\* call raised, returned no data or returned fewer than 2 buckets; for 2 or
\* more buckets with nonzero counts it returns the mean of the last 7
\* day-over-day percent changes in date order (of all of them when there are
\* fewer than 8 days); the counts 10, 20 give 100.
C14_VolumeGrowthDefaults ==
    /\ pc # "raised"
    /\ pc = "assemble" =>
        /\ volume_growth # None
        /\ count_raised => volume_growth[1] = [kind |-> "num", num |-> 0, den |-> 1]
        /\ ~count_raised =>
            LET data == counts_response[1]
                n == Len(data)
                count == [d \in 1..n |->
                            data[CHOOSE i \in 1..n : data[i].end = d].tweet_count]
                k == IF n - 1 < 7 THEN n - 1 ELSE 7
                change == [j \in 1..k |->
                            Frac(100 * (count[n - k + j] - count[n - k + j - 1]),
                                 count[n - k + j - 1])]
            IN  /\ n < 2 => volume_growth[1] = [kind |-> "num", num |-> 0, den |-> 1]
                /\ (n >= 2 /\ \A d \in 1..n : count[d] # 0) =>
                        volume_growth[1] = FracDiv(FracSum(change), Frac(k, 1))
                /\ data = <<[end |-> 1, tweet_count |-> 10], [end |-> 2, tweet_count |-> 20]>>
                        => volume_growth[1] = [kind |-> "num", num |-> 100, den |-> 1]

\* a series of nine days with nonzero counts, answered latest day first, whose
\* first change is not among the last seven: the growth is their mean, -50
C14_Witness ==
    /\ pc = "assemble" /\ ~count_raised
    /\ Len(counts_response[1]) = 9
    /\ counts_response[1][1].end = 9
    /\ \A i \in 1..9 : counts_response[1][i].tweet_count =
            (IF counts_response[1][i].end = 1 THEN 10
             ELSE IF counts_response[1][i].end = 9 THEN 10 ELSE 20)
    /\ volume_growth[1] = [kind |-> "num", num |-> -50, den |-> 7]

(***************************************************************************)
(* Claims about the rollup of get_community_metrics (SpecCommunity)        *)
(***************************************************************************)
\* C18: when at least one lookup succeeded, top_accounts holds min(10, number
\* of accounts found) rows of accounts found, in descending order of
\* followers, no account left out having more followers than one reported;
\* total_followers is the sum and avg_followers the mean over all the
\* accounts found, those left out of top_accounts included.
C18_TopTenOfAllFound ==
    (pc = "volume" /\ community_accounts # None) =>
        LET list == community_accounts[1]
            found == SelectSeq(list, Found)
            n == Len(found)
            top == community_metrics[1].top_accounts
            total == IntSum([i \in 1..n |-> Followers(found[i])])
            InTop(u) == Cardinality({i \in 1..Len(top) : top[i].username = u})
            InFound(u) == Cardinality({i \in 1..n : found[i] = u})
        IN  n >= 1 =>
            /\ Len(top) = (IF n < 10 THEN n ELSE 10)
            /\ \A i \in 1..(Len(top) - 1) : top[i].followers >= top[i + 1].followers
            /\ \A i \in 1..Len(top) :
                /\ Found(top[i].username)
                /\ top[i].followers = Followers(top[i].username)
            /\ \A u \in Usernames :
                /\ InTop(u) <= InFound(u)
                /\ InTop(u) < InFound(u) =>
                        \A i \in 1..Len(top) : top[i].followers >= Followers(u)
            /\ community_metrics[1].total_followers = total
            /\ community_metrics[1].avg_followers.num * n
                    = total * community_metrics[1].avg_followers.den

\* eleven accounts were found, the one with most followers asked last: it is
\* reported first, one of the others is left out and still counted
C18_Witness ==
    /\ pc = "volume"
    /\ community_accounts = Some([i \in 1..11 |-> IF i = 11 THEN "alice" ELSE "bob"])
    /\ Len(community_metrics[1].top_accounts) = 10
    /\ community_metrics[1].top_accounts[1].username = "alice"
    /\ community_metrics[1].total_followers = 2300

(***************************************************************************)
(* Claims about the handle load_model returns (SpecLoad)                   *)
(***************************************************************************)
\* C19: every handle a thread has received from load_model holds a model on
\* which eval() has been called, and the model the globals hold is the one
\* of every handle received so far.
C19_HandleInitialised ==
    \A t \in Threads :
        threads[t].handle # None =>
            /\ threads[t].handle[1].model \in evaluated
            /\ threads[t].handle[1].model = _model[1]

(***************************************************************************)
(* Claims about the order of the steps of one request (Spec)               *)
(***************************************************************************)
\* C17: the classifier is called only once retrieval has returned; an account
\* lookup or a count-series call is made only once every post of the batch
\* has been scored and the aggregate taken, the count-series call only once
\* the community rollup has been returned; and when the classifier raised,
\* the invocation ends without result and without any account lookup or
\* count-series call.
C17_StepOrder ==
    /\ classify_calls > 0 => pc \notin {"start", "fetch_loop", "fetch_dedup", "fetched"}
    /\ (lookup_log # <<>> \/ count_calls > 0) =>
        /\ df # <<>>
        /\ Len(polarity) = Len(df)
        /\ classify_calls = Len(df)
        /\ aggregate # None
    /\ count_calls > 0 => community_metrics # None
    /\ classifier_raised =>
        /\ pc \in {"raised", "responded"}
        /\ lookup_log = <<>>
        /\ count_calls = 0
        /\ result = None

\* two posts were scored, then an account was looked up, then the count
\* series was asked, and the result returned
C17_Witness ==
    /\ pc = "returned" /\ Len(df) = 2 /\ classify_calls = 2
    /\ Len(lookup_log) = 1 /\ count_calls = 1
    /\ result # None

(***************************************************************************)
(* Claims about two invocations (SpecTwice, SpecConcurrent)                *)
(***************************************************************************)
\* C15: of two invocations with the same arguments made one after the other
\* against the same deterministic collaborators, the second ends as the first
\* did: both raise or both return, the results agree on every field but
\* timestamp, and the second result is the one an invocation on its own
\* returns; the second invocation constructs no model, it scores with the
\* handle the first one left.
C15_SecondRunAgrees ==
    /\ model_loads <= 1
    /\ (threads.running = 2 /\ pc \in {"returned", "raised", "responded"}) =>
        LET first == threads.waiting
            alone == AloneResult(symbol, community_accounts)
        IN  /\ (result = None) <=> (first.result = None)
            /\ (result = None) <=> (alone = None)
            /\ pc = "raised" => first.http_status = Some(500)
            /\ pc = "responded" => http_status = first.http_status
            /\ result # None =>
                \A f \in ResultFields \ {"timestamp"} :
                    /\ result[1][f] = first.result[1][f]
                    /\ result[1][f] = alone[1][f]

\* both invocations scored two posts, looked an account up and returned
C15_Witness ==
    /\ threads.running = 2 /\ pc = "responded"
    /\ symbol = "SYM" /\ community_accounts = Some(<<"alice">>)
    /\ threads.waiting.symbol = "SYM" /\ threads.waiting.result # None
    /\ result # None /\ result[1].engagement_metrics.total_tweets = 2
    /\ classify_calls = 2 /\ model_loads = 1

\* what an invocation holds at the return of fetch_tweets and at its end is
\* what it holds when it runs on its own
AsAlone(locals) ==
    LET alone == AloneResult(locals.symbol, locals.community_accounts)
        loop == AloneLoop(locals.symbol, <<>>, None)
    IN  /\ locals.pc = "fetched" =>
            /\ locals.all_tweets = loop.all_tweets
            /\ locals.next_token = loop.next_token
            /\ locals.df = AloneBatch(locals.symbol)
        /\ locals.pc = "returned" => locals.result = alone
        /\ locals.pc = "raised" => (alone = None /\ locals.result = None)
        /\ locals.pc = "responded" =>
            /\ locals.result = alone
            /\ locals.http_status = (IF alone = None THEN Some(500) ELSE Some(200))

\* C16: in every interleaving of two invocations, the posts accumulated, the
\* token, the batch and the outcome (result, or failure) of each invocation
\* are those of that invocation on its own against the same collaborators,
\* whether the other one fails or not.
C16_InvocationsIsolated ==
    /\ AsAlone(Locals)
    /\ AsAlone(threads.waiting)

\* an invocation returned its result for one symbol while the other one, in
\* flight for another symbol, had failed in the classifier
C16_Witness ==
    /\ pc = "returned" /\ symbol = "SYM" /\ result # None
    /\ result[1].engagement_metrics.total_tweets = 2
    /\ threads.waiting.pc = "raised" /\ threads.waiting.symbol = "BAD"
    /\ threads.waiting.classifier_raised

====
